---- MODULE Spec2Model ----
(***************************************************************************)
(* Model of the YouTube stream resolver: the Node /stream service          *)
(* (src/unnamed/part_002), the Laravel YouTubeStreamService in front of it *)
(* (src/unnamed/part_002), and the anti-blocking resolver of               *)
(* src/ytd/server.js (getYouTubeStreamData, extractBestStreamUrl).         *)
(*                                                                         *)
(* JavaScript and PHP strings that the code takes apart (references,       *)
(* query strings, cache keys, stream URLs) are sequences of one-character  *)
(* strings; "" of the code is the empty sequence << >>.  Time is counted   *)
(* in hours.                                                               *)
(***************************************************************************)
EXTENDS Integers, Sequences, FiniteSets, TLC

VARIABLES
    now,        \* the clock (Date.now() / time()), in hours
    cache,      \* Node: the NodeCache instance, key -> [v, t, s]
    pc,         \* Node: where each /stream request is
    req,        \* Node: each request's query parameters
    resp,       \* Node: each request's response
    calls,      \* Node: player requests issued on behalf of each request
    got,        \* Node: what the player endpoint answered each request
    trace,      \* Node: the pipeline stages each request went through
    phpCache,   \* Laravel: the Cache facade's store, key -> [v, t]
    phpPc,      \* Laravel: where each getStreamUrl call is
    phpArgs,    \* Laravel: each call's arguments
    phpRet,     \* Laravel: each call's return value
    rpc,        \* server.js: where the getYouTubeStreamData call is
    attempt,    \* server.js: the attempt parameter of the running invocation
    answers,    \* server.js: what the player endpoint answered, in order
    visits,     \* server.js: handshake page requests issued
    posts,      \* server.js: player (data) requests issued
    delay,      \* server.js: the backoff delay last waited for, in ms
    waited,     \* server.js: ms passed since that delay's timer was set
    jar,        \* server.js: the cookie jar initialVisit returned
    apiJar,     \* server.js: the cookie jar of the data request's instance
    cookieFile, \* server.js: the stored session record of the video
    saved,      \* server.js: saveCookieJar was called since the last data request
    result,     \* server.js: what the top-level call returned or threw
    errorLog,   \* server.js: the errorLog array
    logged,     \* server.js: the number of logError calls so far
    errorsResp, \* server.js: the last response of GET /errors
    srvCache,   \* server.js: the NodeCache instance of /stream/:videoUrl
    srvSeen,    \* server.js: how many distinct videos have been asked for
    srvResp,    \* server.js: the last response of /stream/:videoUrl
    selIn,      \* selector: the arguments of extractBestStreamUrl
    selOut,     \* selector: its result under each revision
    normIn,     \* normalizer: two requests' references and format hints
    normOut     \* normalizer: their video identifiers and cache keys

vars == <<now, cache, pc, req, resp, calls, got, trace, phpCache, phpPc,
          phpArgs, phpRet, rpc, attempt, answers, visits, posts, delay, waited,
          jar, apiJar, cookieFile, saved, result, errorLog, logged, errorsResp,
          srvCache, srvSeen, srvResp, selIn, selOut, normIn, normOut>>

nodeVars == <<now, cache, pc, req, resp, calls, got, trace>>
phpVars == <<phpCache, phpPc, phpArgs, phpRet>>
retryVars == <<rpc, attempt, answers, visits, posts, delay, waited, jar,
               apiJar, cookieFile, saved, result, errorLog, logged, errorsResp>>
srvVars == <<srvCache, srvSeen, srvResp>>
selVars == <<selIn, selOut, normIn, normOut>>

----------------------------------------------------------------------------
(* Bounds of the model. *)

MaxReq == 2
MaxTime == 3
MaxFormats == 2
MaxErrors == 52
MaxVideos == 1002

----------------------------------------------------------------------------
(* Strings as sequences of characters. *)

Upper == {"A","B","C","D","E","F","G","H","I","J","K","L","M",
          "N","O","P","Q","R","S","T","U","V","W","X","Y","Z"}
Lower == {"a","b","c","d","e","f","g","h","i","j","k","l","m",
          "n","o","p","q","r","s","t","u","v","w","x","y","z"}
Digit == {"0","1","2","3","4","5","6","7","8","9"}

\* The character class [A-Za-z0-9_-] of the identifier pattern.
IdChars == Upper \cup Lower \cup Digit \cup {"_", "-"}

\* The {11} of the identifier pattern.
IdLen == 11

\* s.startsWith(p)
StartsWith(s, p) == Len(s) >= Len(p) /\ SubSeq(s, 1, Len(p)) = p

\* s.indexOf(p) + 1: the first place p occurs in s, 0 when it does not.
IndexOf(s, p) ==
    LET at == {i \in 1..(Len(s) - Len(p) + 1) : SubSeq(s, i, i + Len(p) - 1) = p}
    IN IF at = {} THEN 0 ELSE CHOOSE i \in at : \A j \in at : i <= j

\* s.includes(p)
Includes(s, p) == IndexOf(s, p) # 0

\* What follows the first occurrence of p in s (s itself has no p: << >>).
After(s, p) ==
    IF ~Includes(s, p) THEN << >>
    ELSE SubSeq(s, IndexOf(s, p) + Len(p), Len(s))

\* s.split(p)[0]: what precedes the first occurrence of p in s.
Before(s, p) ==
    IF ~Includes(s, p) THEN s ELSE SubSeq(s, 1, IndexOf(s, p) - 1)

\* s.split(p)[1], for an s that holds p: the piece between the first and the
\* second occurrence of p.
SplitSecond(s, p) == Before(After(s, p), p)

\* /^[A-Za-z0-9_-]{11}$/.test(url)
IsBareId(url) == Len(url) = IdLen /\ \A i \in 1..Len(url) : url[i] \in IdChars

\* new URLSearchParams(q).get(name): the value of the first name=value pair
\* of the &-separated query q whose name is `name`; << >> stands for null
\* and for an empty value (both are falsy where the code looks at them).
RECURSIVE ParamsGet(_, _)
ParamsGet(q, name) ==
    IF q = << >> THEN << >>
    ELSE LET pair == Before(q, <<"&">>)
             rest == After(q, <<"&">>)
         IN IF Before(pair, <<"=">>) = name
            THEN After(pair, <<"=">>)
            ELSE ParamsGet(rest, name)

HTTP == <<"h","t","t","p",":","/","/">>
HTTPS == <<"h","t","t","p","s",":","/","/">>
YOUTUBE_WATCH == <<"y","o","u","t","u","b","e",".","c","o","m","/","w","a","t","c","h">>
YOUTU_BE == <<"y","o","u","t","u",".","b","e","/">>

\* new URL(url) succeeds: the reference is absolute.
IsAbsoluteUrl(url) == StartsWith(url, HTTP) \/ StartsWith(url, HTTPS)

\* new URL(url).search without its "?": the query, up to the fragment.
UrlSearch(url) == After(Before(url, <<"#">>), <<"?">>)

extractVideoId(url) ==
    IF url = << >> THEN << >>
    ELSE IF IsBareId(url) THEN url
    ELSE IF Includes(url, YOUTUBE_WATCH)
         THEN IF IsAbsoluteUrl(url)
              THEN ParamsGet(UrlSearch(url), <<"v">>)
              ELSE << >>
    ELSE IF Includes(url, YOUTU_BE)
         THEN Before(SplitSecond(url, YOUTU_BE), <<"?">>)
    ELSE << >>

----------------------------------------------------------------------------
(* The format selector.  A descriptor is the player response:               *)
(*   [status, reason, streamingData, formats, adaptiveFormats]              *)
(* and a format is [itag, mimeType, audioQuality, height, url,              *)
(* signatureCipher].  An absent string field is << >> or "", an absent      *)
(* height is 0: the code treats them as it treats the absent field.         *)

\* null of extractBestStreamUrl (and undefined of cache.get).
NULL == << >>

VIDEO_MP4 == <<"v","i","d","e","o","/","m","p","4">>
VIDEO_WEBM == <<"v","i","d","e","o","/","w","e","b","m">>
URL_PARAM == <<"u","r","l">>

DigitVal(c) ==
    CASE c = "0" -> 0 [] c = "1" -> 1 [] c = "2" -> 2 [] c = "3" -> 3
      [] c = "4" -> 4 [] c = "5" -> 5 [] c = "6" -> 6 [] c = "7" -> 7
      [] c = "8" -> 8 [] c = "9" -> 9

\* NaN of parseInt: no format's itag equals it.
NaN == -1

RECURSIVE ParseDigits(_, _)
ParseDigits(s, acc) ==
    IF s = << >> \/ Head(s) \notin Digit THEN acc
    ELSE ParseDigits(Tail(s), acc * 10 + DigitVal(Head(s)))

\* parseInt(itag): the leading decimal digits of the string, NaN without any.
parseInt(s) ==
    IF s = << >> \/ Head(s) \notin Digit THEN NaN ELSE ParseDigits(s, 0)

\* [...(data.streamingData.formats || []), ...(adaptiveFormats || [])]
AllFormats(data) == data.formats \o data.adaptiveFormats

\* The first index of a set of indices, 0 for the empty set: what
\* formats.find(pred) finds among the indices satisfying pred.
FirstOf(S) == IF S = {} THEN 0 ELSE CHOOSE i \in S : \A j \in S : i <= j

\* list.sort((a, b) => (b.height || 0) - (a.height || 0))[0], for the list of
\* the formats at the indices S: the sort is stable, so its head is the first
\* entry of greatest height.
SortedHead(formats, S) ==
    formats[CHOOSE k \in S :
                \A j \in S : /\ formats[j].height <= formats[k].height
                             /\ (j < k => formats[j].height < formats[k].height)]

\* A truthy string.
Truthy(s) == s # << >>

\* extractBestStreamUrl of src/ytd/server.js.
extractBestStreamUrl(data, itag) ==
    IF ~data.streamingData THEN NULL
    ELSE
    LET formats == AllFormats(data)
        idx == 1..Len(formats)
        hinted ==
            IF Truthy(itag)
            THEN FirstOf({i \in idx :
                     /\ formats[i].itag = parseInt(itag)
                     /\ (Truthy(formats[i].url) \/ Truthy(formats[i].signatureCipher))})
            ELSE 0
        mp4Formats == {i \in idx :
                     /\ StartsWith(formats[i].mimeType, VIDEO_MP4)
                     /\ (Truthy(formats[i].url) \/ Truthy(formats[i].signatureCipher))
                     /\ formats[i].audioQuality # ""}
        anyFormat == FirstOf({i \in idx : Truthy(formats[i].url)})
        fallback == IF anyFormat # 0 THEN formats[anyFormat].url ELSE NULL
        fromBest ==
            IF mp4Formats = {} THEN fallback
            ELSE LET bestFormat == SortedHead(formats, mp4Formats)
                 IN IF Truthy(bestFormat.url) THEN bestFormat.url
                    ELSE IF Truthy(ParamsGet(bestFormat.signatureCipher, URL_PARAM))
                         THEN ParamsGet(bestFormat.signatureCipher, URL_PARAM)
                    ELSE fallback
    IN IF hinted # 0 /\ Truthy(formats[hinted].url) THEN formats[hinted].url
       ELSE IF hinted # 0
               /\ Truthy(ParamsGet(formats[hinted].signatureCipher, URL_PARAM))
            THEN ParamsGet(formats[hinted].signatureCipher, URL_PARAM)
       ELSE fromBest

\* The selector handing out a cipher payload where no format has a url.
extractBestStreamUrlLite_CipherAsUrl(data, itag) ==
    IF ~data.streamingData THEN NULL
    ELSE
    LET formats == AllFormats(data)
        idx == 1..Len(formats)
        hinted ==
            IF Truthy(itag)
            THEN FirstOf({i \in idx : /\ formats[i].itag = parseInt(itag)
                                      /\ Truthy(formats[i].url)})
            ELSE 0
        mp4Formats == {i \in idx : /\ StartsWith(formats[i].mimeType, VIDEO_MP4)
                                   /\ Truthy(formats[i].url)
                                   /\ formats[i].audioQuality # ""}
        anyFormat == FirstOf({i \in idx : Truthy(formats[i].url)})
        ciphered == FirstOf({i \in idx : Truthy(formats[i].signatureCipher)})
    IN IF hinted # 0 THEN formats[hinted].url
       ELSE IF mp4Formats # {} THEN SortedHead(formats, mp4Formats).url
       ELSE IF anyFormat # 0 THEN formats[anyFormat].url
       ELSE IF ciphered # 0 THEN formats[ciphered].signatureCipher
       ELSE NULL

\* extractBestStreamUrl of the lightweight service (src/unnamed/part_002).
extractBestStreamUrlLite(data, itag) ==
    IF ~data.streamingData THEN NULL
    ELSE
    LET formats == AllFormats(data)
        idx == 1..Len(formats)
        hinted ==
            IF Truthy(itag)
            THEN FirstOf({i \in idx : /\ formats[i].itag = parseInt(itag)
                                      /\ Truthy(formats[i].url)})
            ELSE 0
        mp4Formats == {i \in idx : /\ StartsWith(formats[i].mimeType, VIDEO_MP4)
                                   /\ Truthy(formats[i].url)
                                   /\ formats[i].audioQuality # ""}
        anyFormat == FirstOf({i \in idx : Truthy(formats[i].url)})
    IN IF hinted # 0 THEN formats[hinted].url
       ELSE IF mp4Formats # {} THEN SortedHead(formats, mp4Formats).url
       ELSE IF anyFormat # 0 THEN formats[anyFormat].url
       ELSE NULL

----------------------------------------------------------------------------
(* The descriptors the selector is checked on: every list of at most        *)
(* MaxFormats formats over the shapes below, split in every way between     *)
(* formats and adaptiveFormats.  The format at place i of the whole list    *)
(* carries the direct URL "Ui" or the cipher URL "Ci", so that a result      *)
(* names the format it came from.                                           *)

Itags == {18, 22}
Heights == {0, 360, 720}
Kinds == {"combined", "videoOnly", "webm"}
Srcs == {"none", "url", "cipherUrl", "cipherOnly"}
FormatShapes == [itag : Itags, kind : Kinds, height : Heights, src : Srcs]

PlaceDigit(i) == <<"0","1","2","3","4","5","6","7","8","9">>[i + 1]
DirectUrl(i) == <<"U", PlaceDigit(i)>>
CipherUrl(i) == <<"C", PlaceDigit(i)>>
CIPHER_SIG == <<"s","=","S">>

MkFormat(shape, i) ==
    [itag |-> shape.itag,
     mimeType |-> IF shape.kind = "webm" THEN VIDEO_WEBM ELSE VIDEO_MP4,
     audioQuality |-> IF shape.kind = "videoOnly" THEN "" ELSE "AUDIO_QUALITY_MEDIUM",
     height |-> shape.height,
     url |-> IF shape.src = "url" THEN DirectUrl(i) ELSE << >>,
     signatureCipher |->
        CASE shape.src = "cipherUrl" ->
                 CIPHER_SIG \o <<"&">> \o URL_PARAM \o <<"=">> \o CipherUrl(i)
          [] shape.src = "cipherOnly" -> CIPHER_SIG
          [] OTHER -> << >>]

ShapeSeqs == UNION {[1..n -> FormatShapes] : n \in 0..MaxFormats}

\* The descriptor whose formats are the first k shapes and whose
\* adaptiveFormats are the others.
MkData(shapes, k) ==
    [status |-> "OK", reason |-> "", streamingData |-> TRUE,
     formats |-> [i \in 1..k |-> MkFormat(shapes[i], i)],
     adaptiveFormats |-> [i \in 1..(Len(shapes) - k) |-> MkFormat(shapes[i + k], i + k)]]

NoStreamingData ==
    [status |-> "OK", reason |-> "", streamingData |-> FALSE,
     formats |-> << >>, adaptiveFormats |-> << >>]

SelDescriptors ==
    {MkData(shapes, k) : <<shapes, k>> \in
        {sk \in ShapeSeqs \X (0..MaxFormats) : sk[2] <= Len(sk[1])}}
    \cup {NoStreamingData}

\* The itag argument: absent, or the decimal string of a format identifier.
Hints == {<< >>, <<"1","8">>, <<"2","2">>}

----------------------------------------------------------------------------
(* getYouTubeStreamData of src/ytd/server.js: one top-level call for one    *)
(* video, with the invocations it makes of itself.  The upstream's answers   *)
(* are the environment's choice.  A status of 0 is a failure without a       *)
(* response (network error, timeout): error.response?.status is undefined.   *)

Statuses == {0, 200, 403, 404, 429, 500}
VisitStatuses == {0, 200, 429}
Bodies == {"D1", "D2"}
Jitters == {0, 999}

ERROR_LOG_MAX == 50
RETRY_CAP == 3

\* logError dropping the oldest entry one call early.
logError_OffByOne(log, entry) ==
    LET grown == <<entry>> \o log
    IN IF Len(grown) >= ERROR_LOG_MAX THEN SubSeq(grown, 1, Len(grown) - 1)
       ELSE grown

\* errorLog.unshift(entry); if (errorLog.length > ERROR_LOG_MAX) errorLog.pop()
logError(log, entry) ==
    LET grown == <<entry>> \o log
    IN IF Len(grown) > ERROR_LOG_MAX THEN SubSeq(grown, 1, Len(grown) - 1)
       ELSE grown

\* getCookieJar taking what is left of a record that cannot be read.
getCookieJar_Stale(file) == file.cookies

\* getCookieJar: the stored jar, a new one when the record cannot be read.
getCookieJar(file) == IF file.ok THEN file.cookies ELSE {}

\* saveCookieJar: the record becomes the jar, unless the write fails.
saveCookieJar(file, cookies, written) ==
    IF written THEN [ok |-> TRUE, cookies |-> cookies] ELSE file

\* The retry condition without its rate-limit clause.
ShouldRetry_ServerErrorsOnly(n, status) ==
    n < RETRY_CAP /\ (status >= 500 \/ status = 0)

\* The retry condition with the cap off by one.
ShouldRetry_OffByOne(n, status) ==
    n <= RETRY_CAP /\ (status = 429 \/ status = 403 \/ status >= 500 \/ status = 0)

\* The retry condition retrying every failure.
ShouldRetry_AnyStatus(n, status) == n < RETRY_CAP

\* The retry condition with twice the cap.
ShouldRetry_CapDoubled(n, status) ==
    n < 2 * RETRY_CAP /\ (status = 429 \/ status = 403 \/ status >= 500 \/ status = 0)

\* attempt < 3 && (isRateLimited || status >= 500 || !status)
ShouldRetry(n, status) ==
    n < RETRY_CAP /\ (status = 429 \/ status = 403 \/ status >= 500 \/ status = 0)

\* A backoff delay growing by a fixed step.
BackoffDelay_Linear(n, jitter) == (n + 2) * 2000 + jitter

\* Math.pow(2, attempt + 2) * 1000 + Math.random() * 1000
BackoffDelay(n, jitter) == (2 ^ (n + 2)) * 1000 + jitter

\* initialVisit up to its page request: a cookie jar is loaded and the GET sent.
BeginVisit ==
    /\ jar' = getCookieJar(cookieFile)
    /\ visits' = visits + 1
    /\ rpc' = "visit"

\* The top-level call getYouTubeStreamData(videoId).
CallResolver ==
    /\ rpc = "idle"
    /\ attempt' = 0
    /\ BeginVisit
    /\ UNCHANGED <<answers, posts, delay, waited, apiJar, cookieFile, saved,
                   result, errorLog, logged, errorsResp>>

\* initialVisit letting a failed page request end the call with its error.
VisitDone_Fatal ==
    /\ rpc = "visit"
    /\ \E status \in VisitStatuses, written \in BOOLEAN :
         LET visited == IF status = 200 THEN jar \cup {"visit"} ELSE jar
             file == IF status = 200
                     THEN saveCookieJar(cookieFile, visited, written)
                     ELSE cookieFile
         IN /\ jar' = visited
            /\ cookieFile' = file
            /\ saved' = (saved \/ status = 200)
            /\ errorLog' = IF status = 200 THEN errorLog
                           ELSE logError(errorLog,
                                    [action |-> "initialVisit", status |-> status,
                                     attempt |-> attempt, n |-> logged + 1])
            /\ logged' = IF status = 200 THEN logged ELSE logged + 1
            /\ apiJar' = getCookieJar(file)
            /\ rpc' = IF status = 200 THEN "delay" ELSE "thrown"
            /\ result' = IF status = 200 THEN result
                         ELSE [kind |-> "thrown", data |-> "", status |-> status]
    /\ UNCHANGED <<attempt, answers, visits, posts, delay, waited, errorsResp>>

\* The page request ends; initialVisit returns the jar; the data request's
\* instance is created, with a jar of its own loaded from the record; the
\* pre-request delay starts.
VisitDone ==
    /\ rpc = "visit"
    /\ \E status \in VisitStatuses, written \in BOOLEAN :
         LET visited == IF status = 200 THEN jar \cup {"visit"} ELSE jar
             file == IF status = 200
                     THEN saveCookieJar(cookieFile, visited, written)
                     ELSE cookieFile
         IN /\ jar' = visited
            /\ cookieFile' = file
            /\ saved' = (saved \/ status = 200)
            /\ errorLog' = IF status = 200 THEN errorLog
                           ELSE logError(errorLog,
                                    [action |-> "initialVisit", status |-> status,
                                     attempt |-> attempt, n |-> logged + 1])
            /\ logged' = IF status = 200 THEN logged ELSE logged + 1
            /\ apiJar' = getCookieJar(file)
    /\ rpc' = "delay"
    /\ UNCHANGED <<attempt, answers, visits, posts, delay, waited, result,
                   errorsResp>>

\* The pre-request delay fires and the data request is sent.
SendPost ==
    /\ rpc = "delay"
    /\ posts' = posts + 1
    /\ saved' = FALSE
    /\ rpc' = "post"
    /\ UNCHANGED <<attempt, answers, visits, delay, waited, jar, apiJar,
                   cookieFile, result, errorLog, logged, errorsResp>>

\* The data request succeeds: the jar is saved and response.data returned.
PostOk ==
    /\ rpc = "post"
    /\ \E body \in Bodies, written \in BOOLEAN :
         /\ answers' = Append(answers, [status |-> 200, data |-> body])
         /\ apiJar' = apiJar \cup {"player"}
         /\ cookieFile' = saveCookieJar(cookieFile, jar, written)
         /\ saved' = TRUE
         /\ result' = [kind |-> "returned", data |-> body, status |-> 200]
    /\ rpc' = "returned"
    /\ UNCHANGED <<attempt, visits, posts, delay, waited, jar, errorLog,
                   logged, errorsResp>>

\* The data request fails: the catch block waits to retry, or logs and throws.
PostFailed ==
    /\ rpc = "post"
    /\ \E status \in Statuses \ {200}, jitter \in Jitters :
         /\ answers' = Append(answers, [status |-> status, data |-> ""])
         /\ IF ShouldRetry(attempt, status)
            THEN /\ delay' = BackoffDelay(attempt, jitter)
                 /\ waited' = 0
                 /\ rpc' = "backoff"
                 /\ UNCHANGED <<result, errorLog, logged>>
            ELSE /\ errorLog' = logError(errorLog,
                                    [action |-> "getYouTubeStreamData",
                                     status |-> status, attempt |-> attempt,
                                     n |-> logged + 1])
                 /\ logged' = logged + 1
                 /\ result' = [kind |-> "thrown", data |-> "", status |-> status]
                 /\ rpc' = "thrown"
                 /\ UNCHANGED <<delay, waited>>
    /\ UNCHANGED <<attempt, visits, posts, jar, apiJar, cookieFile, saved,
                   errorsResp>>

\* Time passes while the call waits for its backoff timer.
BackoffElapses ==
    /\ rpc = "backoff"
    /\ waited < delay
    /\ \E t \in {delay \div 2, delay} : t > waited /\ waited' = t
    /\ UNCHANGED <<rpc, attempt, answers, visits, posts, delay, jar, apiJar,
                   cookieFile, saved, result, errorLog, logged, errorsResp>>

\* The session record is deleted or damaged on disk while the call runs.
StoreFault ==
    /\ rpc \in {"visit", "delay", "post", "backoff"}
    /\ cookieFile.ok
    /\ cookieFile' = [cookieFile EXCEPT !.ok = FALSE]
    /\ UNCHANGED <<rpc, attempt, answers, visits, posts, delay, waited, jar,
                   apiJar, saved, result, errorLog, logged, errorsResp>>

\* The backoff timer fires, not before its delay has passed:
\* getYouTubeStreamData(videoId, attempt + 1).
Retry ==
    /\ rpc = "backoff"
    /\ waited >= delay
    /\ attempt' = attempt + 1
    /\ BeginVisit
    /\ UNCHANGED <<answers, posts, delay, waited, apiJar, cookieFile, saved,
                   result, errorLog, logged, errorsResp>>

\* The errors the /errors endpoint shows: errorLog.slice(0, 10)
ERRORS_SHOWN == 10

\* GET /stream/:videoUrl of src/ytd/server.js ends in its catch block, which
\* logs the error: the n-th logError call of the process.
StreamFailed ==
    /\ logged < MaxErrors
    /\ errorLog' = logError(errorLog,
                       [action |-> "stream", status |-> 0, attempt |-> 0,
                        n |-> logged + 1])
    /\ logged' = logged + 1
    /\ UNCHANGED <<rpc, attempt, answers, visits, posts, delay, waited, jar,
                   apiJar, cookieFile, saved, result, errorsResp>>

\* GET /errors: the ten newest entries and the length of the log.
GetErrors ==
    /\ errorsResp' =
          [errors |-> SubSeq(errorLog, 1,
                             IF Len(errorLog) < ERRORS_SHOWN THEN Len(errorLog)
                             ELSE ERRORS_SHOWN),
           total |-> Len(errorLog)]
    /\ UNCHANGED <<rpc, attempt, answers, visits, posts, delay, waited, jar,
                   apiJar, cookieFile, saved, result, errorLog, logged>>

----------------------------------------------------------------------------
(* GET /stream/:videoUrl of src/ytd/server.js and its cache, for requests    *)
(* whose upstream page request succeeds, all within the entries' time to     *)
(* live.  Videos are numbered in the order in which they are first asked     *)
(* for.  The handler calls extractStreamInfo, which the file does not        *)
(* define: it is taken to return the stream data of the page.               *)

\* maxKeys of the NodeCache options.
MAX_KEYS == 1000

\* The stream data of a video's page.
extractStreamInfo(page) == <<"S", page>>

\* cache.set(key, value) of a NodeCache with maxKeys: it throws ECACHEFULL
\* when the cache holds maxKeys keys, and stores nothing.
ServerCacheFull(c) == Cardinality(DOMAIN c) >= MAX_KEYS
ServerCacheSet(c, key, value) ==
    [k \in DOMAIN c \cup {key} |-> IF k = key THEN value ELSE c[k]]

\* The handler for video v, the first video or the next new one.
ServerStream(v) ==
    /\ v \in {1, srvSeen + 1} /\ v <= MaxVideos
    /\ srvSeen' = IF v > srvSeen THEN v ELSE srvSeen
    /\ IF v \in DOMAIN srvCache
       THEN /\ srvResp' = [video |-> v, status |-> 200, cached |-> TRUE,
                           data |-> srvCache[v]]
            /\ UNCHANGED <<srvCache, cookieFile, errorLog, logged>>
       ELSE IF ServerCacheFull(srvCache)
       THEN /\ srvResp' = [video |-> v, status |-> 500, cached |-> FALSE,
                           data |-> << >>]
            /\ errorLog' = logError(errorLog,
                               [action |-> "stream", status |-> 0, attempt |-> 0,
                                n |-> logged + 1])
            /\ logged' = logged + 1
            /\ UNCHANGED <<srvCache, cookieFile>>
       ELSE /\ srvCache' = ServerCacheSet(srvCache, v, extractStreamInfo(v))
            /\ srvResp' = [video |-> v, status |-> 200, cached |-> FALSE,
                           data |-> extractStreamInfo(v)]
            /\ \E written \in BOOLEAN :
                  cookieFile' = IF v = 1
                                THEN saveCookieJar(cookieFile, getCookieJar(cookieFile),
                                                   written)
                                ELSE cookieFile
            /\ UNCHANGED <<errorLog, logged>>
    /\ UNCHANGED <<rpc, attempt, answers, visits, posts, delay, waited, jar,
                   apiJar, saved, result, errorsResp>>

----------------------------------------------------------------------------
(* The caches.  The Node service keeps a NodeCache (stdTTL: CACHE_TTL); an   *)
(* entry is [v, t, s]: the value, the time it expires at, and, for the      *)
(* record, the time it was stored at.  The Laravel service keeps its URLs    *)
(* in the framework's Cache, for cacheDuration.                              *)

\* CACHE_TTL and cache_duration: 7200 seconds, in hours.
CACHE_TTL == 2
CACHE_DURATION == 2

\* undefined of cache.get, null of Cache::get and of getStreamUrl.
Missing == << >>

\* An entry counted as expired from the hour after it was stored, whatever
\* its time to live.
NodeExpired_Stored(entry, time) == entry.s < time

\* NodeCache: an entry is expired once the clock has passed its t.
NodeExpired(entry, time) == entry.t < time

\* cache.get(key): the value, undefined for no entry and for an expired one.
NodeCacheGet(c, key, time) ==
    IF key \in DOMAIN c /\ ~NodeExpired(c[key], time) THEN c[key].v ELSE Missing

\* What cache.get(key) leaves of the cache: an expired entry it meets is deleted.
NodeCacheAfterGet(c, key, time) ==
    IF key \in DOMAIN c /\ NodeExpired(c[key], time)
    THEN [k \in DOMAIN c \ {key} |-> c[k]]
    ELSE c

\* A set that leaves an entry already stored under the key as it is.
NodeCacheSet_IfAbsent(c, key, value, time) ==
    IF key \in DOMAIN c THEN c
    ELSE [k \in DOMAIN c \cup {key} |->
            IF k = key THEN [v |-> value, t |-> time + CACHE_TTL, s |-> time]
            ELSE c[k]]

\* cache.set(key, value): the entry lives for stdTTL from now.
NodeCacheSet(c, key, value, time) ==
    [k \in DOMAIN c \cup {key} |->
        IF k = key THEN [v |-> value, t |-> time + CACHE_TTL, s |-> time]
        ELSE c[k]]

\* The periodic check (checkperiod): every expired entry is deleted.
NodeCacheSweep(c, time) ==
    [k \in {x \in DOMAIN c : ~NodeExpired(c[x], time)} |-> c[k]]

\* Cache::has($cacheKey): an entry that has not reached its expiry.
PhpCacheHas(c, key, time) == key \in DOMAIN c /\ time < c[key].t

\* Cache::get($cacheKey)
PhpCacheGet(c, key, time) ==
    IF PhpCacheHas(c, key, time) THEN c[key].v ELSE Missing

\* Cache::put($cacheKey, $data['url'], $this->cacheDuration)
PhpCachePut(c, key, value, time) ==
    [k \in DOMAIN c \cup {key} |->
        IF k = key THEN [v |-> value, t |-> time + CACHE_DURATION, s |-> time]
        ELSE c[k]]

----------------------------------------------------------------------------
(* The Node service's /stream endpoint (src/unnamed/part_002).  A request    *)
(* runs from its arrival to its first await (the player request), and from   *)
(* the player's answer to its response; nothing else of the process runs     *)
(* in between.  The response's shape (JSON or redirect) is left out: url is  *)
(* the URL it carries.                                                       *)

Req == 1..MaxReq

VID_A == <<"d","Q","w","4","w","9","W","g","X","c","Q">>
SHORT_A == HTTPS \o YOUTU_BE \o VID_A \o <<"?","t","=","5">>
NOT_A_VIDEO == <<"x">>
Refs == {VID_A, SHORT_A, NOT_A_VIDEO}

\* The itag parameter of a request: absent, or a format identifier.
QueryItags == {<< >>, <<"1","8">>}

\* API_KEYS, and what a client may send as its key.
API_KEYS == {"RXcIL8gvlFP09N8ZpkkymPpiHCLSaJt0Ti5RkIhdzz4"}
Credentials == API_KEYS \cup {""}

\* The answers of the player endpoint to the Node service.
PLAYABLE_1 ==
    MkData(<<[itag |-> 18, kind |-> "combined", height |-> 360, src |-> "url"]>>, 1)
PLAYABLE_2 ==
    MkData(<<[itag |-> 22, kind |-> "videoOnly", height |-> 720, src |-> "url"],
             [itag |-> 18, kind |-> "combined", height |-> 360, src |-> "url"]>>, 0)
NO_URL ==
    MkData(<<[itag |-> 18, kind |-> "combined", height |-> 360, src |-> "cipherOnly"]>>, 1)
UNPLAYABLE ==
    [PLAYABLE_1 EXCEPT !.status = "ERROR", !.reason = "This video is private"]
LOGIN_REQUIRED ==
    [PLAYABLE_1 EXCEPT !.status = "LOGIN_REQUIRED"]
NoAnswer ==
    [status |-> "", reason |-> "", streamingData |-> FALSE,
     formats |-> << >>, adaptiveFormats |-> << >>]
PlayerData == {PLAYABLE_1, PLAYABLE_2, NO_URL, UNPLAYABLE, LOGIN_REQUIRED}

\* !apiKey || !API_KEYS.includes(apiKey)
validateApiKey(apiKey) == apiKey # "" /\ apiKey \in API_KEYS

\* itag ? `${videoId}_${itag}` : videoId
CacheKey(videoId, itag) ==
    IF Truthy(itag) THEN videoId \o <<"_">> \o itag ELSE videoId

\* A handler that does not look at the playability status.
Playable_Always(data) == TRUE

\* data.playabilityStatus?.status !== "OK"
Playable(data) == data.status = "OK"

\* data.playabilityStatus?.reason || "Video unavailable"
Reason(data) == IF data.reason # "" THEN data.reason ELSE "Video unavailable"

Response(status, url, error) == [status |-> status, url |-> url, error |-> error]
NoResponse == Response(0, Missing, "")

\* Request r ends with the response rs, having gone through the stages st.
Respond(r, rs, st) ==
    /\ resp' = [resp EXCEPT ![r] = rs]
    /\ trace' = [trace EXCEPT ![r] = trace[r] \o st]
    /\ pc' = [pc EXCEPT ![r] = "done"]

\* The middleware and the handler, up to the response or the player request.
Handle(r, q) ==
    LET videoId == extractVideoId(q.url)
        cacheKey == CacheKey(videoId, q.itag)
        cachedUrl == NodeCacheGet(cache, cacheKey, now)
    IN /\ pc[r] = "idle"
       /\ req' = [req EXCEPT ![r] = q]
       /\ UNCHANGED got
       /\ IF ~validateApiKey(q.key)
          THEN /\ Respond(r, Response(401, Missing, "Valid API key is required"), << >>)
               /\ UNCHANGED <<cache, calls>>
          ELSE IF ~Truthy(q.url)
          THEN /\ Respond(r, Response(400, Missing, "Missing URL parameter"), << >>)
               /\ UNCHANGED <<cache, calls>>
          ELSE IF ~Truthy(videoId)
          THEN /\ Respond(r, Response(400, Missing, "Invalid YouTube URL or video ID"), << >>)
               /\ UNCHANGED <<cache, calls>>
          ELSE IF Truthy(cachedUrl)
          THEN /\ Respond(r, Response(200, cachedUrl, ""), <<"cache.get">>)
               /\ UNCHANGED <<cache, calls>>
          ELSE /\ cache' = NodeCacheAfterGet(cache, cacheKey, now)
               /\ calls' = [calls EXCEPT ![r] = calls[r] + 1]
               /\ trace' = [trace EXCEPT ![r] =
                      IF cache' # cache THEN <<"cache.get", "cache.expired", "player">>
                      ELSE <<"cache.get", "player">>]
               /\ pc' = [pc EXCEPT ![r] = "fetch"]
               /\ UNCHANGED resp

\* A client's GET /stream.
Receive(r) ==
    /\ \A o \in 1..(r - 1) : pc[o] # "idle"
    /\ \E url \in Refs, itag \in QueryItags, key \in Credentials :
           Handle(r, [path |-> "/stream", url |-> url, itag |-> itag, key |-> key])
    /\ UNCHANGED <<now, phpVars>>

\* A client's GET /health: no middleware is mounted on the path.
Health(r) ==
    /\ pc[r] = "idle"
    /\ \A o \in 1..(r - 1) : pc[o] # "idle"
    /\ \E key \in Credentials :
           req' = [req EXCEPT ![r] =
                      [path |-> "/health", url |-> << >>, itag |-> << >>, key |-> key]]
    /\ Respond(r, Response(200, Missing, ""), <<"health">>)
    /\ UNCHANGED <<now, cache, calls, got, phpVars>>

\* The player request of r fails: the handler's catch answers 500.
PlayerFails(r) ==
    /\ pc[r] = "fetch"
    /\ Respond(r, Response(500, Missing, "Failed to extract stream URL"), << >>)
    /\ UNCHANGED <<now, cache, req, calls, got, phpVars>>

\* The player request of r is answered, and the handler runs to its response.
PlayerAnswers(r) ==
    /\ pc[r] = "fetch"
    /\ \E data \in PlayerData :
         LET q == req[r]
             cacheKey == CacheKey(extractVideoId(q.url), q.itag)
             streamUrl == extractBestStreamUrlLite(data, q.itag)
         IN /\ got' = [got EXCEPT ![r] = data]
            /\ IF ~Playable(data)
                 THEN /\ Respond(r, Response(403, Missing, Reason(data)), << >>)
                      /\ UNCHANGED cache
               ELSE IF ~Truthy(streamUrl)
                 THEN /\ Respond(r, Response(404, Missing, "No suitable stream URL found"),
                                 <<"select">>)
                      /\ UNCHANGED cache
                 ELSE /\ cache' = NodeCacheSet(cache, cacheKey, streamUrl, now)
                      /\ Respond(r, Response(200, streamUrl, ""),
                                 <<"select", "cache.set">>)
    /\ UNCHANGED <<now, req, calls, phpVars>>

\* An hour passes.
Tick ==
    /\ now < MaxTime
    /\ now' = now + 1
    /\ UNCHANGED <<cache, pc, req, resp, calls, got, trace, phpVars>>

\* NodeCache's periodic check runs.
Sweep ==
    /\ cache' = NodeCacheSweep(cache, now)
    /\ cache' # cache
    /\ UNCHANGED <<now, pc, req, resp, calls, got, trace, phpVars>>

----------------------------------------------------------------------------
(* YouTubeStreamService::getStreamUrl (src/unnamed/part_002), the Laravel    *)
(* client of the Node service.  Call p's request to the Node service is the  *)
(* Node request p.                                                           *)

PHP_PREFIX == <<"y","o","u","t","u","b","e","_","s","t","r","e","a","m",":">>

\* "{$itag}": the decimal string of an integer.
RECURSIVE Decimal(_)
Decimal(n) ==
    IF n < 10 THEN <<PlaceDigit(n)>>
    ELSE Decimal(n \div 10) \o <<PlaceDigit(n % 10)>>

\* The ?int $itag of a call: null (0 is as falsy) or a format identifier.
PhpItags == {0, 18}

\* The $videoId of a call: a video's identifier or its short URL.
PhpRefs == {VID_A, SHORT_A}

\* "youtube_stream:{$videoId}" . ($itag ? ":{$itag}" : "")
PhpCacheKey(videoId, itag) ==
    PHP_PREFIX \o videoId \o (IF itag # 0 THEN <<":">> \o Decimal(itag) ELSE << >>)

\* config('services.youtube_stream.api_key')
PhpApiKey == CHOOSE k \in API_KEYS : TRUE

\* The parameters of the request to the Node service.
PhpParams(a) ==
    [path |-> "/stream",
     url |-> a.videoId,
     itag |-> IF a.itag # 0 THEN Decimal(a.itag) ELSE << >>,
     key |-> PhpApiKey]

\* !$forceRefresh && Cache::has($cacheKey)
PhpServesFromCache(a, c, time) ==
    ~a.forceRefresh /\ PhpCacheHas(c, PhpCacheKey(a.videoId, a.itag), time)

\* getStreamUrl is called: it returns from the cache or sends its request.
PhpCall(p) ==
    /\ phpPc[p] = "idle"
    /\ \A o \in 1..(p - 1) : phpPc[o] # "idle"
    /\ \E videoId \in PhpRefs, itag \in PhpItags, forceRefresh \in BOOLEAN :
         LET a == [videoId |-> videoId, itag |-> itag, forceRefresh |-> forceRefresh]
         IN /\ phpArgs' = [phpArgs EXCEPT ![p] = a]
            /\ IF PhpServesFromCache(a, phpCache, now)
               THEN /\ phpRet' = [phpRet EXCEPT ![p] =
                          PhpCacheGet(phpCache, PhpCacheKey(videoId, itag), now)]
                    /\ phpPc' = [phpPc EXCEPT ![p] = "done"]
               ELSE /\ phpPc' = [phpPc EXCEPT ![p] = "sent"]
                    /\ UNCHANGED phpRet
    /\ UNCHANGED <<nodeVars, phpCache>>

\* The request of call p reaches the Node service.
PhpRequest(p) ==
    /\ phpPc[p] = "sent"
    /\ Handle(p, PhpParams(phpArgs[p]))
    /\ phpPc' = [phpPc EXCEPT ![p] = "wait"]
    /\ UNCHANGED <<now, phpCache, phpArgs, phpRet>>

\* The Node service's response reaches call p, which returns.
PhpReturn(p) ==
    /\ phpPc[p] = "wait"
    /\ pc[p] = "done"
    /\ LET rs == resp[p]
           key == PhpCacheKey(phpArgs[p].videoId, phpArgs[p].itag)
       IN IF rs.status >= 200 /\ rs.status < 300
          THEN /\ phpCache' = PhpCachePut(phpCache, key, rs.url, now)
               /\ phpRet' = [phpRet EXCEPT ![p] = rs.url]
          ELSE /\ phpRet' = [phpRet EXCEPT ![p] = Missing]
               /\ UNCHANGED phpCache
    /\ phpPc' = [phpPc EXCEPT ![p] = "done"]
    /\ UNCHANGED <<nodeVars, phpArgs>>

\* Http::timeout(10) runs out before the response: the call returns null.
PhpTimeout(p) ==
    /\ phpPc[p] = "wait"
    /\ pc[p] # "done"
    /\ phpRet' = [phpRet EXCEPT ![p] = Missing]
    /\ phpPc' = [phpPc EXCEPT ![p] = "done"]
    /\ UNCHANGED <<nodeVars, phpCache, phpArgs>>

----------------------------------------------------------------------------
(* The references a client may send as the url parameter: a token in one of *)
(* the shapes the normalizer knows, or in another.                          *)

VID_B == <<"a","_","b","-","c","_","d","-","e","_","f">>
RefTokens ==
    {VID_A, VID_B, <<"a","b">>, <<"a","b","_","1","8">>, VID_A \o <<"X">>}
RefShapes ==
    {"bare", "watch", "watchMore", "watchLast", "watchNoScheme", "short",
     "shortQuery", "other"}
WWW == <<"w","w","w",".">>
V_EQ == <<"v","=">>
T_EQ_5 == <<"t","=","5">>
LIST_EQ == <<"l","i","s","t","=","P","L">>
ELSEWHERE == <<"e","x","a","m","p","l","e",".","o","r","g","/">>

\* The reference of a token in a shape.
MkRef(shape, token) ==
    CASE shape = "bare" -> token
      [] shape = "watch" -> HTTPS \o WWW \o YOUTUBE_WATCH \o <<"?">> \o V_EQ \o token
      [] shape = "watchMore" ->
            HTTPS \o YOUTUBE_WATCH \o <<"?">> \o V_EQ \o token \o <<"&">> \o T_EQ_5
      [] shape = "watchLast" ->
            HTTP \o YOUTUBE_WATCH \o <<"?">> \o LIST_EQ \o <<"&">> \o V_EQ \o token
      [] shape = "watchNoScheme" -> YOUTUBE_WATCH \o <<"?">> \o V_EQ \o token
      [] shape = "short" -> HTTPS \o YOUTU_BE \o token
      [] shape = "shortQuery" -> HTTPS \o YOUTU_BE \o token \o <<"?">> \o T_EQ_5
      [] OTHER -> HTTPS \o ELSEWHERE \o token

References == [shape : RefShapes, token : RefTokens]

----------------------------------------------------------------------------
(* The specifications. *)

EmptyCache == [k \in {} |-> [v |-> Missing, t |-> 0, s |-> 0]]
NoQuery == [path |-> "", url |-> << >>, itag |-> << >>, key |-> ""]
NoArgs == [videoId |-> << >>, itag |-> 0, forceRefresh |-> FALSE]
NoResult == [kind |-> "none", data |-> "", status |-> 0]
NoErrorsResponse == [errors |-> << >>, total |-> -1]
NoServerResponse == [video |-> 0, status |-> 0, cached |-> FALSE, data |-> << >>]
NoSelection == [data |-> NoStreamingData, itag |-> << >>]
NotSelected == [done |-> FALSE, full |-> NULL, lite |-> NULL]
NoReference == [shape |-> "bare", token |-> << >>]
NoReferences == [x |-> NoReference, hx |-> << >>, y |-> NoReference, hy |-> << >>]
NotNormalized ==
    [done |-> FALSE, idx |-> << >>, twice |-> << >>, keyx |-> << >>,
     idy |-> << >>, keyy |-> << >>]

InitNode ==
    /\ now = 0
    /\ cache = EmptyCache
    /\ pc = [r \in Req |-> "idle"]
    /\ req = [r \in Req |-> NoQuery]
    /\ resp = [r \in Req |-> NoResponse]
    /\ calls = [r \in Req |-> 0]
    /\ got = [r \in Req |-> NoAnswer]
    /\ trace = [r \in Req |-> << >>]

InitPhp ==
    /\ phpCache = EmptyCache
    /\ phpPc = [p \in Req |-> "idle"]
    /\ phpArgs = [p \in Req |-> NoArgs]
    /\ phpRet = [p \in Req |-> Missing]

InitRetry ==
    /\ rpc = "idle"
    /\ attempt = 0
    /\ answers = << >>
    /\ visits = 0
    /\ posts = 0
    /\ delay = 0
    /\ waited = 0
    /\ jar = {}
    /\ apiJar = {}
    /\ cookieFile = [ok |-> FALSE, cookies |-> {}]
    /\ saved = FALSE
    /\ result = NoResult
    /\ errorLog = << >>
    /\ logged = 0
    /\ errorsResp = NoErrorsResponse
    /\ srvCache = [v \in {} |-> << >>]
    /\ srvSeen = 0
    /\ srvResp = NoServerResponse

InitSel ==
    /\ selIn = NoSelection
    /\ selOut = NotSelected
    /\ normIn = NoReferences
    /\ normOut = NotNormalized

\* The Node service with its clients.
Init == InitNode /\ InitPhp /\ InitRetry /\ InitSel

Next ==
    \/ \E r \in Req : Receive(r) /\ UNCHANGED <<retryVars, srvVars, selVars>>
    \/ \E r \in Req : Health(r) /\ UNCHANGED <<retryVars, srvVars, selVars>>
    \/ \E r \in Req : PlayerFails(r) /\ UNCHANGED <<retryVars, srvVars, selVars>>
    \/ \E r \in Req : PlayerAnswers(r) /\ UNCHANGED <<retryVars, srvVars, selVars>>
    \/ Tick /\ UNCHANGED <<retryVars, srvVars, selVars>>
    \/ Sweep /\ UNCHANGED <<retryVars, srvVars, selVars>>

Spec == Init /\ [][Next]_vars

\* The Laravel service in front of the Node service.
NextPhp ==
    \/ \E p \in Req : PhpCall(p) /\ UNCHANGED <<retryVars, srvVars, selVars>>
    \/ \E p \in Req : PhpRequest(p) /\ UNCHANGED <<retryVars, srvVars, selVars>>
    \/ \E p \in Req : PhpReturn(p) /\ UNCHANGED <<retryVars, srvVars, selVars>>
    \/ \E p \in Req : PhpTimeout(p) /\ UNCHANGED <<retryVars, srvVars, selVars>>
    \/ \E r \in Req : PlayerFails(r) /\ UNCHANGED <<retryVars, srvVars, selVars>>
    \/ \E r \in Req : PlayerAnswers(r) /\ UNCHANGED <<retryVars, srvVars, selVars>>
    \/ Tick /\ UNCHANGED <<retryVars, srvVars, selVars>>
    \/ Sweep /\ UNCHANGED <<retryVars, srvVars, selVars>>

SpecPhp == Init /\ [][NextPhp]_vars

\* One call of getYouTubeStreamData (src/ytd/server.js).
InitResolver ==
    /\ InitNode /\ InitPhp /\ InitSel
    /\ InitRetry

NextResolver ==
    \/ CallResolver /\ UNCHANGED <<nodeVars, phpVars, srvVars, selVars>>
    \/ VisitDone /\ UNCHANGED <<nodeVars, phpVars, srvVars, selVars>>
    \/ SendPost /\ UNCHANGED <<nodeVars, phpVars, srvVars, selVars>>
    \/ PostOk /\ UNCHANGED <<nodeVars, phpVars, srvVars, selVars>>
    \/ PostFailed /\ UNCHANGED <<nodeVars, phpVars, srvVars, selVars>>
    \/ BackoffElapses /\ UNCHANGED <<nodeVars, phpVars, srvVars, selVars>>
    \/ StoreFault /\ UNCHANGED <<nodeVars, phpVars, srvVars, selVars>>
    \/ Retry /\ UNCHANGED <<nodeVars, phpVars, srvVars, selVars>>

SpecResolver == InitResolver /\ [][NextResolver]_vars

\* The steps of the call that its awaits resume it for: a request's answer,
\* error or timeout, and a timer's firing once its delay has passed.
ResolverProgress ==
    /\ \/ VisitDone
       \/ SendPost
       \/ PostOk
       \/ PostFailed
       \/ BackoffElapses
       \/ Retry
    /\ UNCHANGED <<nodeVars, phpVars, srvVars, selVars>>

\* One call, every request of which ends and every timer of which fires.
SpecResolverLive == SpecResolver /\ WF_vars(ResolverProgress)

\* The error log of src/ytd/server.js under failing requests and its readers.
NextErrorLog ==
    \/ StreamFailed /\ UNCHANGED <<nodeVars, phpVars, srvVars, selVars>>
    \/ GetErrors /\ UNCHANGED <<nodeVars, phpVars, srvVars, selVars>>

SpecErrorLog == InitResolver /\ [][NextErrorLog]_vars

\* The /stream/:videoUrl endpoint of src/ytd/server.js filling its cache.
NextServer ==
    \E v \in 1..MaxVideos :
        ServerStream(v) /\ UNCHANGED <<nodeVars, phpVars, selVars>>

SpecServer == InitResolver /\ [][NextServer]_vars

\* extractBestStreamUrl applied to every descriptor and hint of the bounds.
InitSelector ==
    /\ InitNode /\ InitPhp /\ InitRetry
    /\ selIn \in [data : SelDescriptors, itag : Hints]
    /\ selOut = NotSelected
    /\ normIn = NoReferences
    /\ normOut = NotNormalized

Select ==
    /\ ~selOut.done
    /\ selOut' = [done |-> TRUE,
                  full |-> extractBestStreamUrl(selIn.data, selIn.itag),
                  lite |-> extractBestStreamUrlLite(selIn.data, selIn.itag)]
    /\ UNCHANGED <<selIn, normIn, normOut, nodeVars, phpVars, retryVars, srvVars>>

NextSelector == Select

SpecSelector == InitSelector /\ [][NextSelector]_vars

\* extractVideoId and the cache key applied to every two requests of the
\* reference domain.
InitNormalizer ==
    /\ InitNode /\ InitPhp /\ InitRetry
    /\ selIn = NoSelection
    /\ selOut = NotSelected
    /\ normIn \in [x : References, hx : QueryItags, y : References, hy : QueryItags]
    /\ normOut = NotNormalized

Normalize ==
    /\ ~normOut.done
    /\ LET idx == extractVideoId(MkRef(normIn.x.shape, normIn.x.token))
           idy == extractVideoId(MkRef(normIn.y.shape, normIn.y.token))
       IN normOut' = [done |-> TRUE,
                      idx |-> idx,
                      twice |-> extractVideoId(idx),
                      keyx |-> CacheKey(idx, normIn.hx),
                      idy |-> idy,
                      keyy |-> CacheKey(idy, normIn.hy)]
    /\ UNCHANGED <<selIn, selOut, normIn, nodeVars, phpVars, retryVars, srvVars>>

NextNormalizer == Normalize

SpecNormalizer == InitNormalizer /\ [][NextNormalizer]_vars

----------------------------------------------------------------------------
(* Properties of the format selector. *)

\* A usable URL: a direct url, or the url field of a query-encoded cipher
\* payload.
Usable(f) == Truthy(f.url) \/ Truthy(ParamsGet(f.signatureCipher, URL_PARAM))
UsableUrl(f) ==
    IF Truthy(f.url) THEN f.url ELSE ParamsGet(f.signatureCipher, URL_PARAM)

\* The combined formats of a list: video/mp4, an audio quality, a usable URL.
CombinedUsable(formats) ==
    {i \in 1..Len(formats) : /\ StartsWith(formats[i].mimeType, VIDEO_MP4)
                             /\ formats[i].audioQuality # ""
                             /\ Usable(formats[i])}

\* The first one of greatest height among the formats at the indices S.
Tallest(formats, S) ==
    CHOOSE k \in S : \A j \in S : /\ formats[j].height <= formats[k].height
                                  /\ (j < k => formats[j].height < formats[k].height)

\* The candidates a hint is satisfied by: formatId = hint and a usable URL.
HintCandidates(formats, itag) ==
    {i \in 1..Len(formats) : formats[i].itag = parseInt(itag) /\ Usable(formats[i])}

\* C9: with no hint and at least one combined format with a usable URL,
\* extractBestStreamUrl returns the URL of the combined format of greatest
\* height, the first in formats ++ adaptiveFormats among equals.
C9_BestCombinedChosen ==
    LET formats == AllFormats(selIn.data)
        S == CombinedUsable(formats)
    IN (selOut.done /\ selIn.itag = << >> /\ selIn.data.streamingData /\ S # {})
       => selOut.full = UsableUrl(formats[Tallest(formats, S)])

\* C10: a hint satisfied by some candidate yields the URL of the first such
\* candidate; an unsatisfied hint yields the result without a hint.
C10_HintWinsOrFallsThrough ==
    LET formats == AllFormats(selIn.data)
        H == HintCandidates(formats, selIn.itag)
    IN (selOut.done /\ selIn.itag # << >> /\ selIn.data.streamingData)
       => IF H # {}
          THEN selOut.full = UsableUrl(formats[FirstOf(H)])
          ELSE selOut.full = extractBestStreamUrl(selIn.data, << >>)

\* The candidates with a usable URL.
UsableCandidates(formats) == {i \in 1..Len(formats) : Usable(formats[i])}

\* C18: extractBestStreamUrl returns null exactly when no candidate has a
\* usable URL; a URL it returns is the usable URL of a candidate, and that
\* of the first usable candidate when no hint is satisfied and no combined
\* format qualifies.
C18_FindsUrlWhenOneExists ==
    LET formats == AllFormats(selIn.data)
        U == UsableCandidates(formats)
    IN selOut.done
       => /\ selOut.full = NULL <=> U = {}
          /\ selOut.full # NULL
               => \E i \in U : selOut.full = UsableUrl(formats[i])
          /\ (/\ U # {}
              /\ CombinedUsable(formats) = {}
              /\ (selIn.itag = << >> \/ HintCandidates(formats, selIn.itag) = {}))
               => selOut.full = UsableUrl(formats[FirstOf(U)])

----------------------------------------------------------------------------
(* Properties of getYouTubeStreamData's retries. *)

\* The call has not ended: it waits, or a request of it is in flight.
Running == rpc \in {"visit", "delay", "post", "backoff"}

\* The statuses the code takes for passing: rate-limit or forbidden, a
\* server error, or no status at all.
Transient(status) == status \in {429, 403} \/ status >= 500 \/ status = 0

\* C5: 429 to the first two data requests and 200 to the third: the call
\* goes on after each 429, issues exactly 3 data requests and returns the
\* third response's descriptor.
C5_RetryThenSuccess ==
    /\ (Len(answers) \in {1, 2} /\ \A i \in 1..Len(answers) : answers[i].status = 429)
       => Running
    /\ (/\ Len(answers) >= 3
        /\ answers[1].status = 429 /\ answers[2].status = 429
        /\ answers[3].status = 200)
       => /\ rpc = "returned"
          /\ posts = 3
          /\ Len(answers) = 3
          /\ result = [kind |-> "returned", data |-> answers[3].data, status |-> 200]

C5_Witness ==
    /\ rpc = "returned"
    /\ [i \in 1..Len(answers) |-> answers[i].status] = <<429, 429, 200>>

\* C6: 429 to every data request: the call issues the first attempt and
\* RETRY_CAP retries, then throws the 429 error, a transient one; it never
\* returns a descriptor and issues no request after the cap.
C6_RetryCap ==
    (\A i \in 1..Len(answers) : answers[i].status = 429)
    => /\ posts <= RETRY_CAP + 1
       /\ rpc # "returned"
       /\ rpc = "thrown" <=> Len(answers) = RETRY_CAP + 1
       /\ rpc = "thrown"
          => /\ posts = RETRY_CAP + 1
             /\ result = [kind |-> "thrown", data |-> "", status |-> 429]
             /\ Transient(result.status)
             /\ ~ENABLED NextResolver

C6_Witness ==
    /\ rpc = "thrown"
    /\ [i \in 1..Len(answers) |-> answers[i].status] = <<429, 429, 429, 429>>

\* C7: a failed data request (the one of attempt i - 1) is followed by
\* another attempt exactly when the cap is not reached and its status is
\* transient; otherwise its error is thrown, after one data request when it
\* is the first.
C7_RetryCondition ==
    \A i \in 1..Len(answers) :
        answers[i].status # 200
        => LET followed == i < Len(answers) \/ Running
           IN /\ followed <=> (i - 1 < RETRY_CAP /\ Transient(answers[i].status))
              /\ ~followed => /\ rpc = "thrown"
                              /\ result.status = answers[i].status
                              /\ posts = i

C7_Witness ==
    /\ rpc = "thrown"
    /\ posts = 1
    /\ answers[1].status = 404

\* C15: after every logError call the log holds the newest
\* min(logged, ERROR_LOG_MAX) errors, newest first, and the call has kept
\* the entries it did not drop as they were and in their order, behind the
\* new one; /errors shows the newest of them.
C15_ErrorLogBounded ==
    [][/\ Len(errorLog') <= ERROR_LOG_MAX
       /\ Len(errorLog') = IF logged' < ERROR_LOG_MAX THEN logged' ELSE ERROR_LOG_MAX
       /\ \A i \in 1..Len(errorLog') : errorLog'[i].n = logged' - i + 1
       /\ logged' # logged
            => /\ Len(errorLog') >= Len(errorLog)
               /\ \A i \in 2..Len(errorLog') : errorLog'[i] = errorLog[i - 1]
       /\ errorsResp' # errorsResp
            => /\ errorsResp'.total = Len(errorLog)
               /\ \A i \in 1..Len(errorsResp'.errors) :
                     errorsResp'.errors[i] = errorLog[i]]_vars

\* The log is full, older errors have been dropped, and /errors has shown it.
C15_Witness ==
    /\ logged > ERROR_LOG_MAX
    /\ Len(errorLog) = ERROR_LOG_MAX
    /\ errorsResp.total = ERROR_LOG_MAX
    /\ errorsResp.errors[1].n = logged

\* C17: the cache never holds more entries than its capacity, and a
\* resolution whose upstream request succeeded is answered its result and
\* has it stored, also when the cache was full.
C17_CapacityEvicts ==
    /\ Cardinality(DOMAIN srvCache) <= MAX_KEYS
    /\ srvResp # NoServerResponse
          => /\ srvResp.status = 200
             /\ srvResp.video \in DOMAIN srvCache
             /\ srvCache[srvResp.video] = srvResp.data

\* C13: a call that has ended after a data request, with a descriptor or
\* with an error, has called saveCookieJar after its last data request.
C13_SessionPersisted ==
    (rpc \in {"returned", "thrown"} /\ posts >= 1) => saved

\* What a call ends with when a is the answer to its last data request.
OutcomeOf(a) ==
    IF a.status = 200 THEN [kind |-> "returned", data |-> a.data, status |-> 200]
    ELSE [kind |-> "thrown", data |-> "", status |-> a.status]

\* The call has ended.
Ended == rpc \in {"returned", "thrown"}

\* C21: a page request of initialVisit that fails, whatever its status,
\* gets a log entry with action initialVisit; initialVisit returns the jar
\* it loaded and the call goes on to its data request, which can be sent;
\* a call ends only on a data request's answer, and with that answer's
\* outcome.
C21_HandshakeNonFatal ==
    /\ [](rpc = "delay" => ENABLED SendPost)
    /\ [](Ended => /\ Len(answers) >= 1
                   /\ result = OutcomeOf(answers[Len(answers)]))
    /\ [][(rpc = "visit" /\ rpc' # "visit")
            => /\ rpc' = "delay"
               /\ result' = result
               /\ answers' = answers
               /\ logged' # logged
                    => /\ errorLog'[1].action = "initialVisit"
                       /\ errorLog'[1].n = logged + 1
                       /\ errorLog'[1].status # 200
                       /\ jar' = jar]_vars

\* A call whose only page request failed without a response, and whose data
\* request was then answered a descriptor, which it returned.
C21_Witness ==
    /\ rpc = "returned"
    /\ visits = 1
    /\ Len(errorLog) = 1
    /\ errorLog[1].action = "initialVisit"
    /\ errorLog[1].status = 0
    /\ result = [kind |-> "returned", data |-> answers[1].data, status |-> 200]

\* C22: a jar loaded from a record that is absent or cannot be read is
\* empty, and loading it does not end the call; a save whose write fails
\* does not end the call either; the call ends, and its result is set, only
\* by the answer to a data request, with the outcome of that answer,
\* whatever the record held and whichever writes failed.
C22_StoreFaultsHarmless ==
    [][/\ (rpc' = "visit" /\ rpc # "visit")
            => /\ ~cookieFile.ok => jar' = {}
               /\ result' = result
       /\ (rpc = "visit" /\ rpc' # "visit")
            => /\ rpc' = "delay"
               /\ ~cookieFile'.ok => apiJar' = {}
               /\ result' = result
       /\ (cookieFile.ok /\ ~cookieFile'.ok) => (rpc' = rpc /\ result' = result)
       /\ (result' # result \/ (Ended' /\ ~Ended))
            => /\ rpc = "post"
               /\ Len(answers') = Len(answers) + 1
               /\ result' = OutcomeOf(answers'[Len(answers')])
               /\ rpc' = result'.kind]_vars

\* A call that stored the session, lost the record to damage, loaded an
\* empty jar for its retry, failed to write the session afterwards and
\* returned the descriptor all the same.
C22_Witness ==
    /\ rpc = "returned"
    /\ attempt = 1
    /\ ~cookieFile.ok
    /\ cookieFile.cookies # {}
    /\ apiJar = {"player"}
    /\ result = OutcomeOf(answers[2])

\* C23: a call performs exactly one page request, whatever the number of
\* its retries, and has that one answered before it issues its first data
\* request.
C23_OneHandshakeFirst ==
    /\ rpc # "idle" => visits = 1
    /\ (rpc = "visit" /\ attempt = 0) => posts = 0
    /\ posts >= 1 => visits >= 1

\* C24: the record a successful call writes at its end holds the cookies of
\* the jar initialVisit returned and the cookies of the jar the data
\* request's instance filled.
C24_PersistedWholeSession ==
    [][(rpc = "post" /\ rpc' = "returned" /\ cookieFile' # cookieFile)
        => /\ cookieFile'.ok
           /\ jar' \subseteq cookieFile'.cookies
           /\ apiJar' \subseteq cookieFile'.cookies]_vars

\* C25: the invocations of a call never nest deeper than the retry cap
\* plus one, each with at most one page and one data request, and a call
\* that was made ends, returning or throwing, whatever the upstream answers.
C25_Terminates ==
    /\ [](/\ attempt <= RETRY_CAP
          /\ visits <= RETRY_CAP + 1
          /\ posts <= RETRY_CAP + 1)
    /\ (rpc # "idle") ~> Ended

\* A call that went to the deepest invocation and threw there.
C25_Witness ==
    /\ rpc = "thrown"
    /\ attempt = RETRY_CAP
    /\ visits = RETRY_CAP + 1
    /\ posts = RETRY_CAP + 1

\* C26: the delay set after the failed data request of attempt k, for k
\* below the retry cap, is at least 2^(k+2) * 1000 ms and less than 1000 ms
\* more, for either extreme of the jitter; it is greater than the delay set
\* before and than any delay an earlier retry could have had; the next
\* invocation starts, and its data request is sent, only when that delay
\* has passed.
C26_BackoffGrows ==
    [][/\ (rpc = "post" /\ rpc' = "backoff")
            => /\ attempt \in 0..(RETRY_CAP - 1)
               /\ delay' >= (2 ^ (attempt + 2)) * 1000
               /\ delay' < (2 ^ (attempt + 2)) * 1000 + 1000
               /\ attempt > 0 => delay' > delay
               /\ \A j \in 0..(attempt - 1) :
                     delay' >= (2 ^ (j + 2)) * 1000 + 1000
       /\ attempt' # attempt
            => /\ attempt' = attempt + 1
               /\ rpc = "backoff"
               /\ waited >= delay
       /\ (posts' # posts /\ attempt > 0)
            => /\ waited >= delay
               /\ delay >= (2 ^ (attempt + 1)) * 1000]_vars

\* The data request of the last retry, sent after the longest delay there is.
C26_Witness ==
    /\ rpc = "post"
    /\ attempt = RETRY_CAP
    /\ posts = RETRY_CAP + 1
    /\ delay = 16999
    /\ waited = 16999

----------------------------------------------------------------------------
(* Properties of the /stream endpoint and of getStreamUrl. *)

\* The cache key of a request's parameters.
KeyOf(q) == CacheKey(extractVideoId(q.url), q.itag)

\* The step in which request r is handled up to its first await.
Arrives(r) == pc[r] = "idle" /\ pc'[r] # "idle"

\* The step in which request r is answered after its player request.
Completes(r) == pc[r] = "fetch" /\ pc'[r] = "done"

\* C1: of the requests that share a cache key, at most one has a player
\* request in flight at any time (concurrent resolutions of one key are
\* coalesced into one upstream call).
C1_SingleFlight ==
    \A r1, r2 \in Req :
        (r1 # r2 /\ pc[r1] = "fetch" /\ pc[r2] = "fetch")
            => KeyOf(req[r1]) # KeyOf(req[r2])

\* The /stream endpoint: a resolution that succeeds leaves its URL as the
\* current entry of its key, and a request with the arguments of a succeeded
\* one whose URL is still the current entry is answered that URL with no
\* player request.
C2_NodeRoundTrip ==
    \A r \in Req :
        /\ (Completes(r) /\ resp'[r].status = 200)
               => NodeCacheGet(cache', KeyOf(req[r]), now') = resp'[r].url
        /\ \A r1 \in Req \ {r} :
               (/\ Arrives(r) /\ validateApiKey(req'[r].key)
                /\ pc[r1] = "done" /\ resp[r1].status = 200
                /\ req'[r].url = req[r1].url /\ req'[r].itag = req[r1].itag
                /\ NodeCacheGet(cache, KeyOf(req[r1]), now) = resp[r1].url)
               => /\ pc'[r] = "done"
                  /\ resp'[r] = Response(200, resp[r1].url, "")
                  /\ calls' = calls

\* getStreamUrl: the same of the Laravel service and its cache; the repeated
\* call sends nothing to the Node service.
C2_PhpRoundTrip ==
    \A p \in Req :
        /\ (phpPc[p] = "wait" /\ phpPc'[p] = "done" /\ Truthy(phpRet'[p]))
               => PhpCacheGet(phpCache', PhpCacheKey(phpArgs[p].videoId, phpArgs[p].itag),
                              now') = phpRet'[p]
        /\ \A p1 \in Req \ {p} :
               (/\ phpPc[p] = "idle" /\ phpPc'[p] # "idle"
                /\ ~phpArgs'[p].forceRefresh
                /\ phpPc[p1] = "done" /\ Truthy(phpRet[p1])
                /\ phpArgs'[p].videoId = phpArgs[p1].videoId
                /\ phpArgs'[p].itag = phpArgs[p1].itag
                /\ PhpCacheGet(phpCache, PhpCacheKey(phpArgs[p1].videoId, phpArgs[p1].itag),
                               now) = phpRet[p1])
               => /\ phpPc'[p] = "done"
                  /\ phpRet'[p] = phpRet[p1]
                  /\ calls' = calls /\ pc' = pc

\* C2: after a resolution succeeds, a resolution with the same arguments and
\* no forceRefresh that follows it at once returns the same URL, and the
\* number of player requests is the same after it as before; at the /stream
\* endpoint and at getStreamUrl.
C2_CacheRoundTrip == [][C2_NodeRoundTrip /\ C2_PhpRoundTrip]_vars

\* A call that resolved through the player endpoint, and a later call with
\* its arguments that returned the same URL with no player request.
C2_Witness ==
    \E p1, p2 \in Req :
        /\ p1 # p2 /\ phpPc[p1] = "done" /\ phpPc[p2] = "done"
        /\ Truthy(phpRet[p1]) /\ phpRet[p2] = phpRet[p1]
        /\ phpArgs[p2] = phpArgs[p1] /\ ~phpArgs[p2].forceRefresh
        /\ calls[p1] = 1 /\ calls[p2] = 0

\* C3: a lookup at a time strictly before s + ttl of an entry stored at s is
\* a hit that answers the entry's URL with no player request; a lookup
\* strictly after s + ttl is a miss that removes the entry and goes to the
\* player endpoint; no response served from the cache carries an entry past
\* its s + ttl.
C3_TtlExpiry ==
    [][\A r \in Req :
          LET key == KeyOf(req'[r])
              e == cache[key]
          IN (/\ Arrives(r) /\ validateApiKey(req'[r].key)
              /\ Truthy(extractVideoId(req'[r].url))
              /\ key \in DOMAIN cache)
             => /\ now < e.s + CACHE_TTL
                     => /\ pc'[r] = "done"
                        /\ resp'[r] = Response(200, e.v, "")
                        /\ calls' = calls
                /\ now > e.s + CACHE_TTL
                     => /\ pc'[r] = "fetch"
                        /\ calls'[r] = calls[r] + 1
                        /\ key \notin DOMAIN cache'
                /\ trace'[r] = <<"cache.get">> => now <= e.s + CACHE_TTL]_vars

\* A request that met the entry stored by an earlier one after its expiry,
\* and went to the player endpoint.
C3_Witness ==
    \E r1, r2 \in Req :
        /\ pc[r1] = "done" /\ resp[r1].status = 200
        /\ trace[r1] = <<"cache.get", "player", "select", "cache.set">>
        /\ KeyOf(req[r2]) = KeyOf(req[r1])
        /\ pc[r2] = "fetch"
        /\ trace[r2] = <<"cache.get", "cache.expired", "player">>

\* C4: a getStreamUrl call with forceRefresh that returns a URL has had a
\* player request made for it during the call.
C4_ForceRefreshFresh ==
    \A p \in Req :
        (phpPc[p] = "done" /\ phpArgs[p].forceRefresh /\ Truthy(phpRet[p]))
            => calls[p] >= 1

\* The descriptor has no format with a url of its own.
NoDirectUrl(data) ==
    \A i \in 1..Len(AllFormats(data)) : ~Truthy(AllFormats(data)[i].url)

\* The upstream resolution of request r fails in this step: the player
\* request fails, the video is not playable, or no format can be used.
NodeFails(r) ==
    /\ Completes(r)
    /\ \/ got'[r] = NoAnswer
       \/ got'[r].status # "OK"
       \/ ~got'[r].streamingData
       \/ NoDirectUrl(got'[r])

\* The request of call p to the Node service ends without a URL in this
\* step: no response in time, or a response that is not a success.
PhpFails(p) ==
    /\ phpPc[p] = "wait" /\ phpPc'[p] = "done"
    /\ pc[p] # "done" \/ resp[p].status # 200

\* C14: a resolution that fails answers without a URL and leaves both caches
\* as they were, whatever entries they hold and whether or not the call
\* forces a refresh; an entry appears or changes only in the step in which
\* a resolution succeeds, and holds that resolution's URL; the lookup of a
\* request changes nothing of what the cache answers.
C14_FailuresLeaveCache ==
    [][/\ \A r \in Req :
             NodeFails(r) => /\ resp'[r].status \in {403, 404, 500}
                             /\ resp'[r].url = Missing
                             /\ cache' = cache /\ phpCache' = phpCache
       /\ \A p \in Req :
             PhpFails(p) => /\ phpRet'[p] = Missing
                            /\ cache' = cache /\ phpCache' = phpCache
       /\ \A k \in DOMAIN cache' :
             (k \notin DOMAIN cache \/ cache'[k] # cache[k])
             => \E r \in Req : /\ Completes(r) /\ resp'[r].status = 200
                                /\ got'[r].status = "OK"
                                /\ KeyOf(req[r]) = k
                                /\ cache'[k].v = resp'[r].url
       /\ \A k \in DOMAIN phpCache' :
             (k \notin DOMAIN phpCache \/ phpCache'[k] # phpCache[k])
             => \E p \in Req : /\ phpPc[p] = "wait" /\ phpPc'[p] = "done"
                                /\ resp[p].status = 200
                                /\ PhpCacheKey(phpArgs[p].videoId, phpArgs[p].itag) = k
                                /\ phpCache'[k].v = resp[p].url
                                /\ phpRet'[p] = resp[p].url
       /\ \A r \in Req :
             Arrives(r) => \A k \in DOMAIN cache \cup DOMAIN cache' :
                              NodeCacheGet(cache', k, now') = NodeCacheGet(cache, k, now)]_vars

\* A forced call that failed upstream and returned nothing while the
\* Laravel cache held an unexpired URL for its key.
C14_Witness ==
    \E p \in Req :
        /\ phpPc[p] = "done" /\ phpArgs[p].forceRefresh
        /\ pc[p] = "done" /\ calls[p] = 1 /\ resp[p].status \in {403, 404, 500}
        /\ phpRet[p] = Missing
        /\ Truthy(PhpCacheGet(phpCache, PhpCacheKey(phpArgs[p].videoId, phpArgs[p].itag),
                               now))

\* C16: a request without a key of the configured list is answered 401
\* and nothing else happens for it: no cache read, no cache write, no player
\* request; whatever the endpoint.
C16_ApiKeyRequired ==
    \A r \in Req :
        (pc[r] # "idle" /\ ~validateApiKey(req[r].key))
        => /\ pc[r] = "done" /\ resp[r].status = 401
           /\ trace[r] = << >> /\ calls[r] = 0

\* C19: after a call has returned a URL that is still the current entry of
\* its key, a call without forceRefresh for the same video and the same
\* hint, by whatever reference, is a hit of the Laravel service's cache: it
\* returns that URL and sends no request.
C19_SameVideoSameEntry ==
    [][\A p \in Req : \A p1 \in Req \ {p} :
          (/\ phpPc[p] = "idle" /\ phpPc'[p] # "idle"
           /\ ~phpArgs'[p].forceRefresh
           /\ phpPc[p1] = "done" /\ Truthy(phpRet[p1])
           /\ extractVideoId(phpArgs'[p].videoId) = extractVideoId(phpArgs[p1].videoId)
           /\ phpArgs'[p].itag = phpArgs[p1].itag
           /\ PhpCacheGet(phpCache, PhpCacheKey(phpArgs[p1].videoId, phpArgs[p1].itag),
                          now) = phpRet[p1])
          => /\ phpPc'[p] = "done"
             /\ phpRet'[p] = phpRet[p1]]_vars

\* C8: the step that receives a descriptor whose playability status is not
\* OK answers 403 with the descriptor's reason (a fixed text when it has
\* none), without the format selector, without another player request and
\* without a change of the cache.
C8_UnplayableShortCircuit ==
    [][\A r \in Req :
          (Completes(r) /\ got'[r] # NoAnswer /\ got'[r].status # "OK")
          => /\ resp'[r].status = 403 /\ resp'[r].url = Missing
             /\ resp'[r].error = IF got'[r].reason # "" THEN got'[r].reason
                                 ELSE "Video unavailable"
             /\ trace'[r] = <<"cache.get", "player">>
                  \/ trace'[r] = <<"cache.get", "cache.expired", "player">>
             /\ calls' = calls /\ calls[r] = 1
             /\ cache' = cache]_vars

\* A request that was answered 403 for a descriptor that is not playable.
C8_Witness ==
    \E r \in Req :
        /\ pc[r] = "done" /\ got[r] = UNPLAYABLE
        /\ resp[r].status = 403 /\ resp[r].error = UNPLAYABLE.reason

----------------------------------------------------------------------------
(* Properties of the normalizer and of the cache key. *)

\* The shapes the normalizer accepts: a bare identifier, an absolute watch
\* URL with the identifier as its v parameter, a short URL.
AcceptedShapes == {"bare", "watch", "watchMore", "watchLast", "short", "shortQuery"}

\* C11: an 11-character identifier in any accepted shape normalizes to
\* itself, and normalizing a valid result again gives the same result.
C11_NormalizeAgreesAndIdempotent ==
    normOut.done
    => /\ (IsBareId(normIn.x.token) /\ normIn.x.shape \in AcceptedShapes)
          => normOut.idx = normIn.x.token
       /\ Truthy(normOut.idx) => normOut.twice = normOut.idx

\* C12: the normalizer returns the empty string or 11 characters of the
\* identifier alphabet.
C12_NormalizedWellFormed ==
    normOut.done => (normOut.idx = << >> \/ IsBareId(normOut.idx))

\* C20: two requests the handler accepts have the same cache key only if
\* they have the same video identifier and the same format hint.
C20_CacheKeyInjective ==
    (/\ normOut.done
     /\ Truthy(normOut.idx) /\ Truthy(normOut.idy)
     /\ normOut.keyx = normOut.keyy)
    => normOut.idx = normOut.idy /\ normIn.hx = normIn.hy

============================================================================
